---- MODULE Spec2Model ----
(***************************************************************************)
(* Model of the streaming chat component chat-ui/src/App.js.               *)
(*                                                                         *)
(* Text is modelled as a sequence of symbols.  A symbol is either a single *)
(* character/byte (newline, space, a letter, one byte of a two-byte UTF-8  *)
(* character) or a fixed piece of protocol text that is never cut by the   *)
(* model (the "data: " prefix, the "[DONE]" sentinel, the opening and the  *)
(* closing text of a message object).  A message object spans at least     *)
(* three symbols, so a chunk boundary can fall inside a line, inside a     *)
(* JSON object and inside a multi-byte character.                          *)
(***************************************************************************)
EXTENDS Naturals, Sequences, FiniteSets

VARIABLES
    input,      \* useState('')    : text of the input box
    response,   \* useState('')    : the DisplayBuffer
    isLoading,  \* useState(false) : the loading flag
    pc,         \* per handleSubmit invocation: where its async body is
    resOk,      \* per invocation: res.ok of the resolved fetch ("none" before)
    body,       \* per invocation: the bytes the response body will yield
    pos,        \* per invocation: number of bytes reader.read() has yielded so far
    decoder,    \* per invocation: bytes the TextDecoder holds back (stream: true)
    aligned     \* per invocation: every chunk so far ended right after a newline

vars == <<input, response, isLoading, pc, resOk, body, pos, decoder, aligned>>

-----------------------------------------------------------------------------
(* Bounds *)

MaxSubmissions == 2     \* handleSubmit invocations that pass the blank check
MaxLines == 2           \* lines of a response body (SpecDecode)

Inv == 1..MaxSubmissions

-----------------------------------------------------------------------------
(* Symbols *)

LF == "LF"                  \* "\n"
SP == "SP"                  \* " "
DataPrefix == "data: "
DoneToken == "[DONE]"
MsgOpen == "{type:message,content:{content:'"
MsgClose == "'}}"
MsgNoContent == "{type:message}"
ToolCall == "{type:tool_call,content:{content:'a'}}"
Garbage == "not json"
Lead == "C3"                \* first byte of a two-byte UTF-8 character
Cont == "A9"                \* its continuation byte
EAcute == "e-acute"         \* the character the two bytes encode
Replacement == "U+FFFD"

Whitespace == {SP, LF}
\* what may stand between the quotes of a JSON string
StringChars == {"a", "b", SP, EAcute, Replacement, DataPrefix, DoneToken, Garbage}

-----------------------------------------------------------------------------
(* String helpers of the JavaScript runtime *)

RECURSIVE TrimStart(_)
TrimStart(s) ==
    IF s # <<>> /\ Head(s) \in Whitespace THEN TrimStart(Tail(s)) ELSE s

RECURSIVE TrimEnd(_)
TrimEnd(s) ==
    IF s # <<>> /\ s[Len(s)] \in Whitespace
    THEN TrimEnd(SubSeq(s, 1, Len(s) - 1))
    ELSE s

Trim(s) == TrimEnd(TrimStart(s))

\* s.split(sep): the pieces between separators, empty pieces included
RECURSIVE Split(_, _)
Split(s, sep) ==
    IF s = <<>> THEN << <<>> >>
    ELSE IF Head(s) = sep THEN << <<>> >> \o Split(Tail(s), sep)
    ELSE LET r == Split(Tail(s), sep)
         IN  << <<Head(s)>> \o Head(r) >> \o Tail(r)

\* decoder.decode(value, {stream: true}) with `pending` held back from before:
\* a lead byte at the end is held back, a malformed sequence gives U+FFFD
RECURSIVE Decode(_, _)
Decode(pending, bytes) ==
    IF bytes = <<>> THEN [text |-> <<>>, pending |-> pending]
    ELSE LET b == Head(bytes) IN
         IF pending # <<>>
         THEN IF b = Cont
              THEN LET r == Decode(<<>>, Tail(bytes))
                   IN  [text |-> <<EAcute>> \o r.text, pending |-> r.pending]
              ELSE LET r == Decode(<<>>, bytes)
                   IN  [text |-> <<Replacement>> \o r.text, pending |-> r.pending]
         ELSE IF b = Lead THEN Decode(<<Lead>>, Tail(bytes))
         ELSE LET r == Decode(<<>>, Tail(bytes))
              IN  [text |-> <<IF b = Cont THEN Replacement ELSE b>> \o r.text,
                   pending |-> r.pending]

\* JSON.parse(line), as far as the handler looks at its result
JSONParse(line) ==
    LET t == Trim(line)
        fail == [ok |-> FALSE, type |-> "", hasContent |-> FALSE, content |-> <<>>]
    IN  IF t = <<ToolCall>>
        THEN [ok |-> TRUE, type |-> "tool_call", hasContent |-> TRUE, content |-> <<"a">>]
        ELSE IF t = <<MsgNoContent>>
        THEN [ok |-> TRUE, type |-> "message", hasContent |-> FALSE, content |-> <<>>]
        ELSE IF /\ Len(t) >= 2
                /\ t[1] = MsgOpen
                /\ t[Len(t)] = MsgClose
                /\ \A k \in 2..(Len(t) - 1) : t[k] \in StringChars
        THEN [ok |-> TRUE, type |-> "message", hasContent |-> TRUE,
              content |-> SubSeq(t, 2, Len(t) - 1)]
        ELSE fail

-----------------------------------------------------------------------------
(* The decode loop's body *)

\* chunk.split("\n").filter(line => line.trim() !== "")
ChunkLines(chunk) == SelectSeq(Split(chunk, LF), LAMBDA line : Trim(line) # <<>>)

\* if (line.trim() === "[DONE]") continue;
IsDone(line) == Trim(line) = <<DoneToken>>

\* mutant: the prefix is never stripped
StripPrefixNever(line) == line

\* if (line.startsWith("data: ")) line = line.replace("data: ", "");
StripPrefix(line) ==
    IF line # <<>> /\ Head(line) = DataPrefix THEN Tail(line) ELSE line

\* mutant: the type of the parsed object is not looked at
AppendFragmentAnyType(prev, line) ==
    LET json == JSONParse(line)
    IN  IF json.ok /\ json.hasContent /\ json.content # <<>>
        THEN prev \o json.content
        ELSE prev

\* the try { JSON.parse ... setResponse(prev => prev + ...) } catch { warn }
AppendFragment(prev, line) ==
    LET json == JSONParse(line)
    IN  IF json.ok /\ json.type = "message" /\ json.hasContent /\ json.content # <<>>
        THEN prev \o json.content
        ELSE prev

\* mutant: the sentinel leaves the for loop (break for continue)
RECURSIVE ProcessLinesBreakAtDone(_, _)
ProcessLinesBreakAtDone(prev, lines) ==
    IF lines = <<>> THEN prev
    ELSE IF Trim(Head(lines)) = <<DoneToken>> THEN prev
    ELSE ProcessLinesBreakAtDone(
             LET line == Head(lines)
                 rest == IF line # <<>> /\ Head(line) = DataPrefix THEN Tail(line) ELSE line
                 json == JSONParse(rest)
             IN  IF json.ok /\ json.type = "message" /\ json.hasContent
                 THEN prev \o json.content
                 ELSE prev,
             Tail(lines))

\* for (let line of lines) { ... }
RECURSIVE ProcessLines(_, _)
ProcessLines(prev, lines) ==
    IF lines = <<>> THEN prev
    ELSE IF IsDone(Head(lines)) THEN ProcessLines(prev, Tail(lines))
    ELSE ProcessLines(AppendFragment(prev, StripPrefix(Head(lines))), Tail(lines))

\* error.message of a rejected fetch and of a rejected reader.read()
FetchError == "Failed to fetch"
ReadError == "network error"

\* `Error: ${error.message}`
ErrorString(msg) == <<"Error: ", msg>>

-----------------------------------------------------------------------------
(* Inputs *)

Inputs == {<<>>, <<SP>>, <<"q">>}

LineKinds ==
    { <<MsgOpen, "a", MsgClose>>,
      <<DataPrefix, MsgOpen, "b", MsgClose>>,
      <<MsgOpen, Lead, Cont, MsgClose>>,
      <<DoneToken>>,
      <<Garbage>>,
      <<ToolCall>>,
      <<MsgNoContent>>,
      <<SP>> }

RECURSIVE Join(_)
Join(lines) == IF lines = <<>> THEN <<>> ELSE Head(lines) \o <<LF>> \o Join(Tail(lines))

\* every body of 1..MaxLines newline-terminated lines
Streams == UNION { { Join(ls) : ls \in [1..n -> LineKinds] } : n \in 1..MaxLines }

\* the bodies of the concurrent specification
Bodies ==
    { <<MsgOpen, "a", MsgClose, LF>>,
      <<Garbage, LF, MsgOpen, "b", MsgClose, LF>> }

-----------------------------------------------------------------------------
(* State machine *)

TypeOK ==
    /\ input \in Inputs
    /\ isLoading \in BOOLEAN
    /\ pc \in [Inv -> {"idle", "fetching", "reading", "done", "failed"}]
    /\ resOk \in [Inv -> {"none", "ok", "notok"}]
    /\ pos \in [Inv -> Nat]
    /\ aligned \in [Inv -> BOOLEAN]

InitApp ==
    /\ input = <<>>
    /\ response = <<>>
    /\ isLoading = FALSE
    /\ pc = [i \in Inv |-> "idle"]
    /\ resOk = [i \in Inv |-> "none"]
    /\ pos = [i \in Inv |-> 0]
    /\ decoder = [i \in Inv |-> <<>>]
    /\ aligned = [i \in Inv |-> TRUE]

Init == InitApp /\ \E s \in Bodies : body = [i \in Inv |-> s]

InitDecode == InitApp /\ \E s \in Streams : body = [i \in Inv |-> s]

Started == {i \in Inv : pc[i] # "idle"}
InFlight == {i \in Inv : pc[i] \in {"fetching", "reading"}}

\* onChange={(e) => setInput(e.target.value)}
SetInput(v) ==
    /\ input' = v
    /\ UNCHANGED <<response, isLoading, pc, resOk, body, pos, decoder, aligned>>

\* mutant: the input is not trimmed before the check
IsBlankNoTrim(s) == s = <<>>

\* if (!input.trim()) return;
IsBlank(s) == Trim(s) = <<>>

\* handleSubmit up to its first await: the blank check, the two state
\* updates and the call of fetch
HandleSubmit ==
    IF IsBlank(input)
    THEN UNCHANGED vars
    ELSE /\ Started # Inv
         /\ LET i == CHOOSE j \in Inv \ Started : \A k \in Inv \ Started : j <= k
            IN  pc' = [pc EXCEPT ![i] = "fetching"]
         /\ isLoading' = TRUE
         /\ response' = <<>>
         /\ UNCHANGED <<input, resOk, body, pos, decoder, aligned>>

\* <button type="submit" disabled={isLoading}> inside <form onSubmit={handleSubmit}>
ClickSubmit == ~isLoading /\ HandleSubmit

\* handleKeyDown: Enter without Shift calls handleSubmit, whatever isLoading is
Keys == {"Enter", "a"}
HandleKeyDown(key, shiftKey) ==
    IF key = "Enter" /\ ~shiftKey THEN HandleSubmit ELSE UNCHANGED vars

\* await fetch(...) resolves, whatever the HTTP status; getReader, new TextDecoder
FetchResolve(i, ok) ==
    /\ pc[i] = "fetching"
    /\ pc' = [pc EXCEPT ![i] = "reading"]
    /\ resOk' = [resOk EXCEPT ![i] = ok]
    /\ UNCHANGED <<input, response, isLoading, body, pos, decoder, aligned>>

\* mutant: the error string is appended to what the buffer holds
CatchAppends(i, msg) ==
    /\ pc' = [pc EXCEPT ![i] = "failed"]
    /\ response' = response \o <<"Error: ", msg>>
    /\ isLoading' = FALSE
    /\ UNCHANGED <<input, resOk, body, pos, decoder, aligned>>

\* catch (error) { setResponse(`Error: ...`) } finally { setIsLoading(false) }
Catch(i, msg) ==
    /\ pc' = [pc EXCEPT ![i] = "failed"]
    /\ response' = ErrorString(msg)
    /\ isLoading' = FALSE
    /\ UNCHANGED <<input, resOk, body, pos, decoder, aligned>>

\* await fetch(...) rejects
FetchReject(i) == pc[i] = "fetching" /\ Catch(i, FetchError)

\* await reader.read() rejects
ReadReject(i) == pc[i] = "reading" /\ Catch(i, ReadError)

\* await reader.read() yields the next bytes, as many as the transport likes:
\* one pass of the while loop
ReadChunk(i) ==
    /\ pc[i] = "reading"
    /\ \E k \in 1..(Len(body[i]) - pos[i]) :
          LET value == SubSeq(body[i], pos[i] + 1, pos[i] + k)
              d == Decode(decoder[i], value)
          IN  /\ response' = ProcessLines(response, ChunkLines(d.text))
              /\ decoder' = [decoder EXCEPT ![i] = d.pending]
              /\ aligned' = [aligned EXCEPT ![i] = aligned[i] /\ value[k] = LF]
              /\ pos' = [pos EXCEPT ![i] = pos[i] + k]
    /\ UNCHANGED <<input, isLoading, pc, resOk, body>>

\* await reader.read() yields done: break, then finally { setIsLoading(false) }
ReadDone(i) ==
    /\ pc[i] = "reading"
    /\ pos[i] = Len(body[i])
    /\ pc' = [pc EXCEPT ![i] = "done"]
    /\ isLoading' = FALSE
    /\ UNCHANGED <<input, response, resOk, body, pos, decoder, aligned>>

Next ==
    \/ \E v \in Inputs : SetInput(v)
    \/ ClickSubmit
    \/ \E key \in Keys, shiftKey \in BOOLEAN : HandleKeyDown(key, shiftKey)
    \/ \E i \in Inv, ok \in {"ok", "notok"} : FetchResolve(i, ok)
    \/ \E i \in Inv : FetchReject(i)
    \/ \E i \in Inv : ReadReject(i)
    \/ \E i \in Inv : ReadChunk(i)
    \/ \E i \in Inv : ReadDone(i)

Spec == Init /\ [][Next]_vars

\* one submission at a time over a transport that does not fail, for every
\* body of up to MaxLines lines and every way of cutting it into chunks
NextDecode ==
    \/ \E v \in Inputs : SetInput(v)
    \/ ClickSubmit
    \/ \E i \in Inv : FetchResolve(i, "ok")
    \/ \E i \in Inv : ReadChunk(i)
    \/ \E i \in Inv : ReadDone(i)

SpecDecode == InitDecode /\ [][NextDecode]_vars

-----------------------------------------------------------------------------
(* What the claims speak of *)

IsPrefix(s, t) == Len(s) <= Len(t) /\ SubSeq(t, 1, Len(s)) = s

\* the most recent submission
IsLatest(i) == i \in Started /\ \A j \in Started : j <= i

\* the text of a whole body
WholeText(bytes) == Decode(<<>>, bytes).text

\* the fragment a line stands for: the content.content of the message object
\* that the line, less an optional leading "data: ", parses to; else nothing
FragmentOf(line) ==
    LET rest == IF Len(line) > 0 /\ line[1] = DataPrefix
                THEN SubSeq(line, 2, Len(line))
                ELSE line
        json == JSONParse(rest)
    IN  IF json.ok /\ json.type = "message" /\ json.hasContent
        THEN json.content
        ELSE <<>>

\* a line the decode loop is to skip: unparseable, not a message, or a
\* message without content.content
IsSkipped(line) ==
    LET json == JSONParse(IF Len(line) > 0 /\ line[1] = DataPrefix
                          THEN SubSeq(line, 2, Len(line))
                          ELSE line)
    IN  ~json.ok \/ json.type # "message" \/ ~json.hasContent

\* the fragments of lines[from..], in order
RECURSIVE FragmentsFrom(_, _)
FragmentsFrom(lines, from) ==
    IF from > Len(lines) THEN <<>>
    ELSE FragmentOf(lines[from]) \o FragmentsFrom(lines, from + 1)

\* the non-blank lines of the chunk a step hands to the loop of invocation i
\* (a step that reads nothing has no lines)
StepLines(i) ==
    IF pos'[i] > pos[i]
    THEN LET text == Decode(decoder[i], SubSeq(body[i], pos[i] + 1, pos'[i])).text
             all == Split(text, LF)
         IN  SelectSeq(all, LAMBDA l : \E k \in 1..Len(l) : l[k] \notin Whitespace)
    ELSE <<>>

-----------------------------------------------------------------------------
(* Claims *)

\* C1: at end-of-stream the DisplayBuffer equals the one obtained when the
\* same body is delivered as a single chunk, however the body was cut.
C1_ChunkBoundariesDoNotMatter ==
    \A i \in Inv :
        pc[i] = "done" /\ IsLatest(i)
            => response = ProcessLines(<<>>, ChunkLines(WholeText(body[i])))

\* C2: in every reachable state at most one request is in flight.
C2_AtMostOneInFlight == Cardinality(InFlight) <= 1

\* C3: once a later submission has cleared the DisplayBuffer, no pass of an
\* earlier submission's decode loop changes the DisplayBuffer.
C3_StaleLoopLeavesBuffer ==
    [][\A i \in Inv :
          /\ \E j \in Started : j > i
          /\ pos'[i] # pos[i]
          => response' = response]_vars

C5_SkippedLineChangesNothing ==
    [][\A i \in Inv :
          \A lines \in {StepLines(i)} :
              (\E n \in 1..Len(lines) : IsSkipped(lines[n]))
              => /\ response' = response \o FragmentsFrom(lines, 1)
                 /\ pc'[i] = "reading"]_vars

C5_Witness ==
    \E i \in Inv :
        /\ IsLatest(i) /\ pc[i] = "reading" /\ aligned[i]
        /\ body[i] = <<Garbage, LF, MsgOpen, "a", MsgClose, LF>>
        /\ pos[i] = Len(body[i])
        /\ response = <<"a">>

\* C6: when the fetch or a read rejects, the DisplayBuffer becomes "Error: "
\* followed by the error's message (whatever it held), the loading flag
\* becomes false, and the handler has stopped for good: it reads no more.
C6_TransportFailure ==
    [][\A i \in Inv :
          /\ pc[i] = "fetching" /\ pc'[i] = "failed"
             => response' = <<"Error: ", FetchError>> /\ ~isLoading'
          /\ pc[i] = "reading" /\ pc'[i] = "failed"
             => response' = <<"Error: ", ReadError>> /\ ~isLoading'
          /\ pc[i] = "failed" => pc'[i] = "failed" /\ pos'[i] = pos[i]]_vars

C6_Witness ==
    \E i \in Inv :
        /\ pc[i] = "failed" /\ IsLatest(i)
        /\ pos[i] = Len(body[i]) /\ aligned[i]
        /\ response = <<"Error: ", ReadError>>
        /\ ~isLoading

\* C7: after a response with a non-success status the handler has failed
\* without reading any of the body.
C7_NonSuccessAborts ==
    \A i \in Inv : resOk[i] = "notok" => pc[i] = "failed" /\ pos[i] = 0

\* C8: while a submission's request or stream is active, every change of the
\* DisplayBuffer appends to it (so it is cleared once only, at the start).
C8_BufferOnlyGrows ==
    [][\A i \in Inv :
          pc[i] \in {"fetching", "reading"} /\ pc'[i] \in {"fetching", "reading"}
          => IsPrefix(response, response')]_vars

\* C9: a pass of the loop over a chunk that holds a [DONE] line appends the
\* fragments of the lines before and after it and nothing for it, the handler
\* goes on reading, and a handler ends only when the transport reports done
\* at the end of the body.
C9_SentinelIsInert ==
    [][\A i \in Inv :
          \A lines \in {StepLines(i)} :
              /\ (\E n \in 1..Len(lines) : lines[n] = <<DoneToken>>)
                 => /\ response' = response \o FragmentsFrom(lines, 1)
                    /\ pc'[i] = "reading"
              /\ pc[i] = "reading" /\ pc'[i] = "done"
                 => pos[i] = Len(body[i]) /\ response' = response]_vars

C9_Witness ==
    \E i \in Inv :
        /\ IsLatest(i) /\ pc[i] = "done" /\ aligned[i]
        /\ body[i] = <<DoneToken, LF, MsgOpen, "a", MsgClose, LF>>
        /\ response = <<"a">>

\* C10: while the input is empty or only whitespace no step starts a request,
\* and with no request in flight the DisplayBuffer and the loading flag keep
\* their values.
C10_BlankSubmitDoesNothing ==
    [][(\A k \in 1..Len(input) : input[k] = SP)
          => /\ Started' = Started
             /\ InFlight = {} => response' = response /\ isLoading' = isLoading]_vars

C10_Witness ==
    /\ input = <<SP>>
    /\ InFlight = {}
    /\ response = <<"a">>
    /\ ~isLoading

====
